---- MODULE Spec2Model ----
(***************************************************************************)
(* A model of DeepSpeechSecEval/VictimAPI.py: the differentiable feature   *)
(* extraction front end (CarliniWagnerTransforms) and the session object   *)
(* (Model) that wraps DeepSpeech inference and the transcript decoders.    *)
(*                                                                         *)
(* Four specifications share the module:                                   *)
(*   SpecFeatures    mfcc_ops / window_ops of CarliniWagnerTransforms      *)
(*   Spec            one Model.inference call and everything it calls      *)
(*   SpecSession     inference calls one after the other on one session    *)
(*   SpecInitialise  Model.initialise / Model.__configure over the global  *)
(*                   flag registry                                         *)
(* Tensor values produced by TensorFlow numerics (FFT, DCT, log) and the   *)
(* hypotheses produced by the external CTC decoders are opaque to the      *)
(* source; they are carried as tags that identify where a value came from. *)
(***************************************************************************)
EXTENDS Integers, Sequences, FiniteSets, TLC

VARIABLES
    \* ---- CarliniWagnerTransforms ----
    sample_rate,    \* constructor argument
    n_contexts,     \* self.n_contexts
    n_ceps,         \* self.n_ceps
    batch_size,     \* self.batch_size
    size,           \* number of samples per item of audio_input
    frames,         \* what _window_generator yielded in the last mfcc_ops
    mfcc,           \* self.mfcc, None until mfcc_ops succeeds
    features,       \* self.features, None until window_ops succeeds
    fe_err,         \* exception raised by the last feature-extraction call
    \* ---- Model (inference) ----
    self_decoder,   \* self.decoder, the session default strategy
    events,         \* every sess.run of the session, in order
    calls,          \* number of inference calls made
    last,           \* arguments and outcome of the last inference call
    \* ---- Model.initialise ----
    flags,          \* tf.app.flags.FLAGS: defined flag name -> value
    scorer,         \* self.scorer of the newest session
    init_log        \* one record per Model.initialise call

vars == << sample_rate, n_contexts, n_ceps, batch_size, size, frames, mfcc,
           features, fe_err, self_decoder, events, calls, last, flags,
           scorer, init_log >>

fe_vars == << sample_rate, n_contexts, n_ceps, batch_size, size, frames, mfcc,
              features, fe_err >>

inf_vars == << self_decoder, events, calls, last >>

init_vars == << flags, scorer, init_log >>

\* Python's None, the value of the attributes that start unset.
PyNone == << >>

Min(a, b) == IF a < b THEN a ELSE b

Max(a, b) == IF a > b THEN a ELSE b

\* len(range(0, stop, step)) for step > 0
RangeLen(stop, step) == IF stop <= 0 THEN 0 ELSE (stop + step - 1) \div step

\* len(x[lo:hi]) for a sequence of n elements and 0 <= lo <= hi
SliceLen(lo, hi, n) == Max(0, Min(hi, n) - Min(lo, n))

(***************************************************************************)
(* CarliniWagnerTransforms                                                 *)
(***************************************************************************)

\* Bounds of the feature-extraction model.
MaxFrames == 3

MaxBatch == 2

\* Sample rates tried; 16000 is the default, the others scale the window down.
SampleRates == {250, 1000, 16000}

\* (n_context, n_ceps) pairs tried; <<9, 26>> is the default.
ContextShapes == {<<1, 1>>, <<1, 2>>, <<2, 2>>, <<2, 3>>, <<9, 26>>}

\* int(0.032 * sample_rate), int(0.02 * sample_rate)
window_size(sr) == (32 * sr) \div 1000

window_step(sr) == (20 * sr) \div 1000

tot_contexts(nc) == (nc * 2) + 1

\* for i in range(0, size - window_step, window_step): yield audio[:, i:i+window_size]
\* Each yielded slice is recorded by its start offset and its length.
window_generator(sz, sr) ==
    [k \in 1..RangeLen(sz - window_step(sr), window_step(sr)) |->
        LET i == (k - 1) * window_step(sr)
        IN  [start |-> i, len |-> SliceLen(i, i + window_size(sr), sz)]]

\* tf.stack(lcomp(...), 1) * np.hamming(window_size): stacking needs at least
\* one slice and equal shapes, the product needs slices of window_size samples.
StackRaises(fr, sr) ==
    IF Len(fr) = 0 THEN "IndexError"
    ELSE IF \E k \in 1..Len(fr) : fr[k].len # window_size(sr) THEN "ValueError"
    ELSE "none"

\* The tag of coefficient k of frame f of batch item b in self.mfcc.
MfccTag(b, f, k, nf, nc) == ((b - 1) * nf + (f - 1)) * nc + k

\* self.mfcc has shape [batch, n_frames, n_ceps]: log-energy next to
\* coefficients 1..n_ceps-1.
MfccOf(bs, nf, nc) ==
    [b \in 1..bs |-> [f \in 1..nf |-> [k \in 1..nc |-> MfccTag(b, f, k, nf, nc)]]]

mfcc_ops ==
    /\ mfcc = PyNone
    /\ fe_err = "none"
    /\ frames' = window_generator(size, sample_rate)
    /\ IF StackRaises(frames', sample_rate) # "none"
       THEN /\ fe_err' = StackRaises(frames', sample_rate)
            /\ mfcc' = mfcc
       ELSE /\ fe_err' = fe_err
            /\ mfcc' = MfccOf(batch_size, Len(frames'), n_ceps)
    /\ UNCHANGED << sample_rate, n_contexts, n_ceps, batch_size, size, features >>
    /\ UNCHANGED << inf_vars, init_vars >>

\* np.zeros((batch_size, n_contexts, n_ceps)) for one batch item
empty_context(nctx, nc) == [f \in 1..nctx |-> [k \in 1..nc |-> 0]]

\* tf.reshape(features, [batch_size, -1]) for one batch item
Flatten(rows, nc) ==
    [p \in 1..(Len(rows) * nc) |-> rows[((p - 1) \div nc) + 1][((p - 1) % nc) + 1]]

\* context_generator with the range's "+ 1" forgotten (drops the last block)
context_generator_short(flat, nctx, nc) ==
    [k \in 1..RangeLen(Len(flat) - tot_contexts(nctx) * nc, nc) |->
        LET i == (k - 1) * nc
        IN  [q \in 1..SliceLen(i, i + tot_contexts(nctx) * nc, Len(flat)) |->
                flat[i + q]]]

\* for i in range(0, feats.shape[1] - tot_contexts*n_ceps + 1, n_ceps):
\*     yield feats[:, i:i + tot_contexts*n_ceps]
context_generator(flat, nctx, nc) ==
    [k \in 1..RangeLen(Len(flat) - tot_contexts(nctx) * nc + 1, nc) |->
        LET i == (k - 1) * nc
        IN  [q \in 1..SliceLen(i, i + tot_contexts(nctx) * nc, Len(flat)) |->
                flat[i + q]]]

\* tf.reshape(features, [batch_size, -1, tot_contexts, n_ceps]) of one block
Unflatten(block, nctx, nc) ==
    [c \in 1..tot_contexts(nctx) |-> [k \in 1..nc |-> block[(c - 1) * nc + k]]]

\* window_ops for one batch item
ContextBlocks(item, nctx, nc) ==
    LET padded == empty_context(nctx, nc) \o item \o empty_context(nctx, nc)
        blocks == context_generator(Flatten(padded, nc), nctx, nc)
    IN  [i \in 1..Len(blocks) |-> Unflatten(blocks[i], nctx, nc)]

window_ops ==
    /\ features = PyNone
    /\ fe_err = "none"
    /\ IF mfcc = PyNone
       THEN /\ fe_err' = "AttributeError"
            /\ features' = features
       ELSE /\ fe_err' = fe_err
            /\ features' = [b \in 1..batch_size |->
                               ContextBlocks(mfcc[b], n_contexts, n_ceps)]
    /\ UNCHANGED << sample_rate, n_contexts, n_ceps, batch_size, size, frames, mfcc >>
    /\ UNCHANGED << inf_vars, init_vars >>

\* Audio lengths tried for a sample rate: up to MaxFrames steps and one window.
Sizes(sr) == 0..(MaxFrames * window_step(sr) + window_size(sr))

InitIdleInference ==
    /\ self_decoder = "ds"
    /\ events = << >>
    /\ calls = 0
    /\ last = PyNone

InitIdleInitialise ==
    /\ flags = << >>
    /\ scorer = PyNone
    /\ init_log = << >>

InitFeatures ==
    /\ sample_rate \in SampleRates
    /\ \E sh \in ContextShapes : n_contexts = sh[1] /\ n_ceps = sh[2]
    /\ batch_size \in 1..MaxBatch
    /\ size \in Sizes(sample_rate)
    /\ frames = << >>
    /\ mfcc = PyNone
    /\ features = PyNone
    /\ fe_err = "none"
    /\ InitIdleInference
    /\ InitIdleInitialise

NextFeatures == mfcc_ops \/ window_ops

SpecFeatures == InitFeatures /\ [][NextFeatures]_vars

\* mfcc_ops has been called (it either set self.mfcc or raised while stacking
\* the windows)
MfccOpsRan == mfcc # PyNone \/ fe_err \in {"IndexError", "ValueError"}

\* C5: for every waveform length 0 <= L < window_size the framing step
\* produces zero frames and does not raise.
C5_ShortAudioZeroFrames ==
    (MfccOpsRan /\ size < window_size(sample_rate)) =>
        (Len(frames) = 0 /\ fe_err = "none")

\* C6: the frames start at offsets 0, window_step, 2*window_step, ... and every
\* produced frame holds exactly window_size samples lying inside the waveform;
\* a trailing window reaching past the last sample is dropped, never emitted
\* as a shorter frame.
C6_FullWindowsOnly ==
    MfccOpsRan =>
        \A k \in 1..Len(frames) :
            /\ frames[k].start = (k - 1) * window_step(sample_rate)
            /\ frames[k].len = window_size(sample_rate)
            /\ frames[k].start + window_size(sample_rate) <= size

\* A frame of n_ceps zeros, and whether a block holds one.
ZeroFrame(nc) == [k \in 1..nc |-> 0]

HasZeroFrame(block, nc) == \E c \in 1..Len(block) : block[c] = ZeroFrame(nc)

\* C7: for an MFCC sequence of F >= 1 frames window_ops produces exactly F
\* context blocks, each of 2*n_context+1 frames by n_ceps coefficients; block i
\* holds MFCC frames i-n_context .. i+n_context in order, every position
\* outside the sequence being an all-zero frame, so exactly the first and the
\* last n_context blocks hold zero context frames.
C7_ContextBlocks ==
    features # PyNone =>
        \A b \in 1..batch_size :
            LET F == Len(mfcc[b])
            IN  /\ F >= 1
                /\ Len(features[b]) = F
                /\ \A i \in 1..Len(features[b]) :
                    /\ Len(features[b][i]) = 2 * n_contexts + 1
                    /\ \A c \in 1..Len(features[b][i]) :
                        LET g == i + c - 1 - n_contexts
                        IN  /\ Len(features[b][i][c]) = n_ceps
                            /\ features[b][i][c] =
                                  IF g >= 1 /\ g <= F THEN mfcc[b][g]
                                  ELSE ZeroFrame(n_ceps)
                    /\ HasZeroFrame(features[b][i], n_ceps) <=>
                          (i <= n_contexts \/ i > F - n_contexts)

\* Witness of C7: window_ops has stacked a sequence long enough to have a block
\* with real frames on both sides next to blocks with zero context.
C7_Witness ==
    /\ features # PyNone
    /\ Len(mfcc[1]) > 2 * n_contexts
    /\ ~HasZeroFrame(features[1][n_contexts + 1], n_ceps)
    /\ HasZeroFrame(features[1][1], n_ceps)

(***************************************************************************)
(* Model: inference and the decoders                                       *)
(***************************************************************************)

\* Bounds of the inference model.
MaxCalls == 2

MaxItems == 5

MaxHyp == 6

\* The hypotheses kept by inference(top_five=True): range(0, 5)
TopFive == 5

\* Valid frame counts of a batch item.
FrameLens == {1, 2}

\* batch.audios.feature_lengths of the batches tried (batch.size is its length)
Batches == UNION {[1..n -> FrameLens] : n \in 1..MaxItems}

\* The logits and feed arguments tried: an array or a feed dict, or None.
LogitsArgs == {"Array", "None"}

FeedArgs == {"Feed", "None"}

\* Strategy names tried. "None" is the absent argument, "" an empty name.
DecoderNames == {"None", "", "tf", "greedy", "ds", "batch", "bogus"}

ValidNames == {"tf", "greedy", "ds", "batch"}

\* Python truthiness of a decoder name
Truthy(d) == d \notin {"None", ""}

\* The number of frames of the (padded) logits of a batch
NumFrames(lengths) ==
    CHOOSE m \in FrameLens :
        /\ \E j \in 1..Len(lengths) : lengths[j] = m
        /\ \A j \in 1..Len(lengths) : lengths[j] <= m

\* Hypothesis i (1 is the best) the external decoder ranks for batch item j,
\* its confidence and its transcript.
Hyp(j, i) == [kind |-> "hyp", item |-> j, rank |-> i]

Score(j, i) == [kind |-> "score", item |-> j, rank |-> i]

Text(j, i) == [kind |-> "text", item |-> j, rank |-> i]

\* tf_run with the trailing reset_state() forgotten
tf_run_no_trailing_reset(ev, ok) ==
    IF ok THEN ev \o << "reset", "run" >>
    ELSE ev \o << "reset", "run_raised" >>

\* self.reset_state(); outs = self.sess.run(...); self.reset_state()
\* ok is whether sess.run returned; when it raises the last reset is skipped.
tf_run(ev, ok) ==
    IF ok THEN ev \o << "reset", "run", "reset" >>
    ELSE ev \o << "reset", "run_raised" >>

\* One tf_run inside an inference call. st carries the session events, the
\* number of session runs the call has made and whether the call is still
\* running ("ok"); fail_at names the session run of the call that raises.
Run(st, fail_at) ==
    IF st.status # "ok" THEN st
    ELSE [ev     |-> tf_run(st.ev, fail_at # st.n + 1),
          n      |-> st.n + 1,
          status |-> IF fail_at # st.n + 1 THEN "ok" ELSE "RunError"]

\* get_logits: without a feed the assertion fails, is caught and reported by
\* print, and the method returns None; with one the tensor is run.
get_logits(st, feed, fail_at) ==
    IF feed = "None" THEN [st |-> st, value |-> "None"]
    ELSE [st |-> Run(st, fail_at), value |-> "Array"]

\* The logits a branch of inference works on
LogitsFor(st, logits, feed, fail_at) ==
    IF logits = "None" THEN get_logits(st, feed, fail_at)
    ELSE [st |-> st, value |-> logits]

\* What an inference call did: the branch taken, how it ended, the session
\* events afterwards, the decoder method entered and whether with logits=None,
\* the sequence lengths and frames per item handed to the decoder, and the
\* returned transcripts and confidences (listy is FALSE when a bare value is
\* returned instead of a list).
Out(strategy, status, ev, called, with_none, lens, fin, dec, prb, listy) ==
    [strategy |-> strategy, status |-> status, ev |-> ev, called |-> called,
     with_none |-> with_none, seq_lengths |-> lens, frames_in |-> fin,
     decodings |-> dec, probs |-> prb, listy |-> listy]

Raised(strategy, status, ev, called, with_none) ==
    Out(strategy, status, ev, called, with_none, << >>, << >>, << >>, << >>, TRUE)

\* ds_decode: ctc_beam_search_decoder(np.squeeze(logits), ...) for one item;
\* the item's whole logits go in, k ranked hypotheses come out.
ds_decode(j, k) == [i \in 1..k |-> Hyp(j, i)]

\* ds_decode_batch: l = lengths[0] is the sequence length given for every item
ds_decode_batch_lengths(lengths) == [j \in 1..Len(lengths) |-> lengths[1]]

\* tf_beam_decode: the TF beam search, then tf_run([dense])
tf_beam_decode(st, value, lengths, fail_at) ==
    IF value = "None"
    THEN Raised("tf", "DecoderError", st.ev, "tf_beam_decode", TRUE)
    ELSE LET r == Run(st, fail_at)
         IN  IF r.status # "ok"
             THEN Raised("tf", r.status, r.ev, "tf_beam_decode", FALSE)
             ELSE Out("tf", "ok", r.ev, "tf_beam_decode", FALSE, lengths, lengths,
                      [j \in 1..Len(lengths) |-> Text(j, 1)], << >>, TRUE)

\* tf_greedy_decode: the TF greedy decoder, tf_run([dense]), tf_run(log_probs)
tf_greedy_decode(st, value, lengths, fail_at) ==
    IF value = "None"
    THEN Raised("greedy", "DecoderError", st.ev, "tf_greedy_decode", TRUE)
    ELSE LET r == Run(Run(st, fail_at), fail_at)
         IN  IF r.status # "ok"
             THEN Raised("greedy", r.status, r.ev, "tf_greedy_decode", FALSE)
             ELSE Out("greedy", "ok", r.ev, "tf_greedy_decode", FALSE, lengths,
                      lengths, [j \in 1..Len(lengths) |-> Text(j, 1)],
                      [j \in 1..Len(lengths) |-> Score(j, 1)], TRUE)

\* The "ds" branch of inference
ds_branch(st, top_five, logits, feed, lengths, k, fail_at) ==
    LET g == LogitsFor(st, logits, feed, fail_at)
        B == Len(lengths)
        all_frames == [j \in 1..B |-> NumFrames(lengths)]
    IN  IF g.st.status # "ok" THEN Raised("ds", g.st.status, g.st.ev, "none", FALSE)
        ELSE IF g.value = "None"    \* for logit in None
        THEN Raised("ds", "TypeError", g.st.ev, "none", FALSE)
        ELSE IF top_five
        THEN \* decoding_probs[i][0] and decoding_probs[i][1] for i in range(0, 5)
             IF B < TopFive \/ k < 2
             THEN Raised("ds", "IndexError", g.st.ev, "ds_decode", FALSE)
             ELSE Out("ds", "ok", g.st.ev, "ds_decode", FALSE, << >>, all_frames,
                      [i \in 1..TopFive |-> ds_decode(i, k)[2]],
                      [i \in 1..TopFive |-> ds_decode(i, k)[1]], TRUE)
        ELSE \* decoding_probs[0][0][1] and decoding_probs[0][0][0]
             Out("ds", "ok", g.st.ev, "ds_decode", FALSE, << >>, all_frames,
                 << Text(ds_decode(1, k)[1].item, ds_decode(1, k)[1].rank) >>,
                 << Score(ds_decode(1, k)[1].item, ds_decode(1, k)[1].rank) >>,
                 FALSE)

\* The "batch" branch of inference
batch_branch(st, top_five, logits, feed, lengths, k, fail_at) ==
    LET g == LogitsFor(st, logits, feed, fail_at)
        B == Len(lengths)
        handed == ds_decode_batch_lengths(lengths)
    IN  IF g.st.status # "ok"
        THEN Raised("batch", g.st.status, g.st.ev, "none", FALSE)
        ELSE IF g.value = "None"    \* None.shape inside ds_decode_batch
        THEN Raised("batch", "AttributeError", g.st.ev, "ds_decode_batch", TRUE)
        ELSE IF top_five
        THEN \* decoding_probs[j][i][..] for i in range(0, 5) for j in range(batch.size)
             IF k < TopFive
             THEN Raised("batch", "IndexError", g.st.ev, "ds_decode_batch", FALSE)
             ELSE Out("batch", "ok", g.st.ev, "ds_decode_batch", FALSE, handed, handed,
                      [p \in 1..(TopFive * B) |->
                          Text(((p - 1) % B) + 1, ((p - 1) \div B) + 1)],
                      [p \in 1..(TopFive * B) |->
                          Score(((p - 1) % B) + 1, ((p - 1) \div B) + 1)], TRUE)
        ELSE Out("batch", "ok", g.st.ev, "ds_decode_batch", FALSE, handed, handed,
                 [j \in 1..B |-> Text(j, 1)], [j \in 1..B |-> Score(j, 1)], TRUE)

\* The "tf" branch of inference
tf_branch(st, top_five, logits, feed, lengths, fail_at) ==
    IF top_five THEN Raised("tf", "NotImplementedError", st.ev, "none", FALSE)
    ELSE LET g == LogitsFor(st, logits, feed, fail_at)
         IN  IF g.st.status # "ok"
             THEN Raised("tf", g.st.status, g.st.ev, "none", FALSE)
             ELSE tf_beam_decode(g.st, g.value, lengths, fail_at)

\* The "greedy" branch of inference
greedy_branch(st, logits, feed, lengths, fail_at) ==
    LET g == LogitsFor(st, logits, feed, fail_at)
    IN  IF g.st.status # "ok"
        THEN Raised("greedy", g.st.status, g.st.ev, "none", FALSE)
        ELSE tf_greedy_decode(g.st, g.value, lengths, fail_at)

\* if decoder: decoder = decoder  else: decoder = self.decoder
EffectiveDecoder(decoder, self_dec) == IF Truthy(decoder) THEN decoder ELSE self_dec

\* inference with an unrecognised name quietly decoded by the "ds" strategy
inference_fallback(self_dec, ev, decoder, top_five, logits, feed, lengths, k, fail_at) ==
    LET d  == EffectiveDecoder(decoder, self_dec)
        st == [ev |-> ev, n |-> 0, status |-> "ok"]
    IN  IF d = "tf" THEN tf_branch(st, top_five, logits, feed, lengths, fail_at)
        ELSE IF d = "batch"
        THEN batch_branch(st, top_five, logits, feed, lengths, k, fail_at)
        ELSE IF d = "greedy" THEN greedy_branch(st, logits, feed, lengths, fail_at)
        ELSE ds_branch(st, top_five, logits, feed, lengths, k, fail_at)

\* Model.inference(batch, feed, logits, decoder, top_five)
inference(self_dec, ev, decoder, top_five, logits, feed, lengths, k, fail_at) ==
    LET d  == EffectiveDecoder(decoder, self_dec)
        st == [ev |-> ev, n |-> 0, status |-> "ok"]
    IN  IF d = "tf" THEN tf_branch(st, top_five, logits, feed, lengths, fail_at)
        ELSE IF d = "ds" \/ ~Truthy(d)
        THEN ds_branch(st, top_five, logits, feed, lengths, k, fail_at)
        ELSE IF d = "batch"
        THEN batch_branch(st, top_five, logits, feed, lengths, k, fail_at)
        ELSE IF d = "greedy" THEN greedy_branch(st, logits, feed, lengths, fail_at)
        ELSE Raised("none", "Exception", ev, "none", FALSE)

\* One call of Model.inference on the session. The record kept in last holds
\* the arguments, the number of session events at entry and the outcome.
Call(decoder, top_five, logits, feed, lengths, k, fail_at) ==
    LET out == inference(self_decoder, events, decoder, top_five, logits,
                         feed, lengths, k, fail_at)
    IN  /\ events' = out.ev
        /\ last' = << [decoder |-> decoder, top_five |-> top_five,
                       logits |-> logits, feed |-> feed, lengths |-> lengths,
                       at_entry |-> Len(events), out |-> out] >>
        /\ calls' = calls + 1
        /\ UNCHANGED self_decoder
        /\ UNCHANGED << fe_vars, init_vars >>

\* The first inference call of a session, over every batch tried, every number
\* of hypotheses the LM decoder may rank and every session run that may raise
\* (a call makes at most three: get_logits and the two of tf_greedy_decode).
Inference ==
    /\ calls = 0
    /\ \E decoder \in DecoderNames, top_five \in BOOLEAN,
          logits \in LogitsArgs, feed \in FeedArgs,
          lengths \in Batches, k \in 1..MaxHyp, fail_at \in 0..3 :
        Call(decoder, top_five, logits, feed, lengths, k, fail_at)

\* Inference calls one after the other on one session and one batch.
SessionInference ==
    /\ calls < MaxCalls
    /\ \E decoder \in DecoderNames, top_five \in BOOLEAN,
          logits \in LogitsArgs, feed \in FeedArgs,
          fail_at \in 0..3 :
        Call(decoder, top_five, logits, feed, << 2, 1 >>, TopFive, fail_at)

InitIdleFeatures ==
    /\ sample_rate = 16000
    /\ n_contexts = 9
    /\ n_ceps = 26
    /\ batch_size = 1
    /\ size = 0
    /\ frames = << >>
    /\ mfcc = PyNone
    /\ features = PyNone
    /\ fe_err = "none"

\* After Model.__init__: create_graph has run reset_state() once.
Init ==
    /\ self_decoder \in DecoderNames
    /\ events = << "reset" >>
    /\ calls = 0
    /\ last = PyNone
    /\ InitIdleFeatures
    /\ InitIdleInitialise

Next == Inference

Spec == Init /\ [][Next]_vars

NextSession == SessionInference

SpecSession == Init /\ [][NextSession]_vars

\* The session events made by inference calls: everything after the reset
\* create_graph ran at construction.
InferenceEvents == SubSeq(events, 2, Len(events))

Count(seq, x) == Cardinality({i \in 1..Len(seq) : seq[i] = x})

\* Every inference call so far ran to completion of its session runs.
NoRunRaised == \A i \in 1..Len(events) : events[i] # "run_raised"

\* C1: every model run made through tf_run is bracketed: reset_state runs
\* immediately before and immediately after it with no other session run in
\* between, so after any sequence of completed inference calls the resets
\* they made are exactly twice the model runs and the last event is a reset.
C1_ResetBracket ==
    NoRunRaised =>
        LET ev == InferenceEvents
        IN  /\ \A i \in 1..Len(ev) :
                ev[i] = "run" =>
                    /\ i > 1 /\ ev[i - 1] = "reset"
                    /\ i < Len(ev) /\ ev[i + 1] = "reset"
            /\ Count(ev, "reset") = 2 * Count(ev, "run")
            /\ events[Len(events)] = "reset"

\* Witness of C1: two completed calls, the last one a greedy decode that ran
\* the logits and then both decoder tensors.
C1_Witness ==
    /\ calls >= 2
    /\ NoRunRaised
    /\ last[1].out.status = "ok"
    /\ last[1].out.strategy = "greedy"
    /\ Len(events) - last[1].at_entry = 9
    /\ last[1].at_entry > 1

\* The strategy name of the last call as the caller sees it: the explicit
\* argument, or the session default when the argument is absent.
GivenName == IF last[1].decoder # "None" THEN last[1].decoder ELSE self_decoder

\* The name the call dispatches on: the explicit argument unless it is absent
\* or empty, else the session default.
DispatchName ==
    IF last[1].decoder \notin {"None", ""} THEN last[1].decoder ELSE self_decoder

\* The call failed before any computation: no session event, no decoder.
FailedUpFront ==
    /\ last[1].out.status = "Exception"
    /\ Len(events) = last[1].at_entry
    /\ last[1].out.called = "none"
    /\ last[1].out.strategy = "none"

C3_TopFiveSingleHypothesisRaises ==
    (last # PyNone /\ last[1].top_five /\ DispatchName \in {"greedy", "tf"}) =>
        last[1].out.status = "NotImplementedError"

\* The errors inference raises itself.
ExplicitErrors == {"NotImplementedError", "Exception"}

\* C4: with logits=None and feed=None, for any valid strategy, the call ends in
\* an explicit usage error: the selected decoder is never invoked with None
\* logits and the call does not crash in the decoding code.
C4_MissingLogitsIsUsageError ==
    (/\ last # PyNone
     /\ last[1].logits = "None" /\ last[1].feed = "None"
     /\ DispatchName \in ValidNames) =>
        /\ last[1].out.status \in ExplicitErrors
        /\ ~last[1].out.with_none

\* C8: in every decode strategy each batch item j is decoded using only its
\* own first feature_lengths[j] frames: the length handed to the decoder for
\* item j is feature_lengths[j], and for ds no frame beyond it reaches the
\* decoder.
C8_OwnLengthPerItem ==
    (last # PyNone /\ last[1].out.status = "ok") =>
        /\ last[1].out.strategy # "ds" => last[1].out.seq_lengths = last[1].lengths
        /\ \A j \in 1..Len(last[1].out.frames_in) :
              last[1].out.frames_in[j] <= last[1].lengths[j]

\* C9: for ds and batch the call returns, for every batch item, its best
\* hypothesis (top_five False) or its 5 best in descending score order
\* (top_five True), transcript and confidence at one output position belonging
\* to the same hypothesis of the same item.
C9_TopKPerItem ==
    (last # PyNone /\ last[1].out.status = "ok"
        /\ last[1].out.strategy \in {"ds", "batch"}) =>
        LET B == Len(last[1].lengths)
            n == IF last[1].top_five THEN TopFive ELSE 1
            d == last[1].out.decodings
            p == last[1].out.probs
        IN  /\ Len(d) = n * B
            /\ Len(p) = n * B
            /\ \A q \in 1..Len(d) :
                /\ d[q].kind = "text"
                /\ p[q].kind = "score"
                /\ d[q].item = p[q].item
                /\ d[q].rank = p[q].rank
            /\ \A j \in 1..B, i \in 1..n : \E q \in 1..Len(d) : d[q] = Text(j, i)
            /\ \A q1, q2 \in 1..Len(d) :
                (q1 < q2 /\ d[q1].item = d[q2].item) => d[q1].rank < d[q2].rank

(***************************************************************************)
(* Model.initialise and Model.__configure                                  *)
(***************************************************************************)

\* Bound on the sessions constructed in one process.
MaxSessions == 4

\* Values of DEEPSPEECH_MODEL_DIR tried; "./data" is the default.
ModelDirs == {"./data", "/models/a", "/models/b"}

\* The flags DeepSpeech.create_flags defines that this file reads or writes.
DSFlagNames ==
    {"train", "alphabet_config_path", "lm_binary_path", "lm_trie_path",
     "n_steps", "use_seq_length", "lm_alpha", "lm_beta"}

\* A flag value: a literal, or a file under a model directory.
Lit(v) == [dir |-> "", val |-> v]

PathIn(dir, file) == [dir |-> dir, val |-> file]

\* DeepSpeech.create_flags(): every flag defined with its default value.
create_flags == [name \in DSFlagNames |-> Lit("default")]

\* What __configure does to the registry and the scorer it builds. Defining a
\* flag that is already registered raises DuplicateFlagError.
configure(fl, dir) ==
    IF DSFlagNames \cap DOMAIN fl # {}
    THEN [status |-> "DuplicateFlagError", flags |-> fl, scorer |-> PyNone,
          configured |-> 1]
    ELSE LET set == [create_flags EXCEPT
                        !["alphabet_config_path"] = PathIn(dir, "alphabet.txt"),
                        !["lm_binary_path"] = PathIn(dir, "lm.binary"),
                        !["lm_trie_path"] = PathIn(dir, "trie"),
                        !["n_steps"] = Lit("-1"),
                        !["use_seq_length"] = Lit("True")]
             all == set @@ fl
         IN  [status |-> "ok", flags |-> all,
              scorer |-> << [alpha |-> all["lm_alpha"], beta |-> all["lm_beta"],
                             binary |-> all["lm_binary_path"],
                             trie |-> all["lm_trie_path"],
                             alphabet |-> all["alphabet_config_path"]] >>,
              configured |-> 1]

\* The registry with every flag deleted.
NoFlags == << >>

\* initialise with the delattr loop forgotten
initialise_keeps_flags(fl, dir) ==
    LET r == configure(fl, dir)
    IN  [r EXCEPT !.configured = 1] @@
        [existed |-> "train" \in DOMAIN fl, deleted |-> {}]

\* Model.initialise: FLAGS.train raises AttributeError when the flag is not
\* defined, and then __configure runs on the registry as it is; otherwise the
\* assertion is checked, every flag is deleted and __configure runs.
initialise(fl, dir) ==
    IF "train" \notin DOMAIN fl
    THEN configure(fl, dir) @@ [existed |-> FALSE, deleted |-> {}]
    ELSE IF fl["train"] = Lit("None")
    THEN [status |-> "AssertionError", flags |-> fl, scorer |-> PyNone,
          configured |-> 0, existed |-> TRUE, deleted |-> {}]
    ELSE configure(NoFlags, dir) @@ [existed |-> TRUE, deleted |-> DOMAIN fl]

\* Constructing a session: self.model_dir comes from the environment, then
\* initialise() runs. The log keeps what the call found and what it left.
NewSession ==
    /\ Len(init_log) < MaxSessions
    /\ \E dir \in ModelDirs :
        LET r == initialise(flags, dir)
        IN  /\ flags' = r.flags
            /\ scorer' = r.scorer
            /\ init_log' = Append(init_log,
                   [dir |-> dir, before |-> DOMAIN flags, existed |-> r.existed,
                    deleted |-> r.deleted, configured |-> r.configured,
                    status |-> r.status, after |-> r.flags])
    /\ UNCHANGED << fe_vars, inf_vars >>

\* A fresh process: no DeepSpeech flag is defined; another library may have
\* registered a flag of its own.
InitInitialise ==
    /\ flags \in {NoFlags, [name \in {"verbosity"} |-> Lit("0")]}
    /\ scorer = PyNone
    /\ init_log = << >>
    /\ InitIdleFeatures
    /\ InitIdleInference

NextInitialise == NewSession

SpecInitialise == InitInitialise /\ [][NextInitialise]_vars

\* The registry a first-time configuration leaves in a process without flags.
FreshFlags(dir) == configure(NoFlags, dir).flags

====
